---- MODULE Spec2Model ----
(***************************************************************************)
(* LunaTrack: the record store (chrome-extension/lib/storage.js) and the   *)
(* popup handler that saves into it, as a state machine.  Every operation  *)
(* runs to completion before the next one starts (one writer), except in   *)
(* SpecRace.                                                               *)
(*                                                                         *)
(* Specifications                                                          *)
(*   - Spec: every operation of the store, in any order.                   *)
(*   - SpecMerge: two copies of one store that import the same two         *)
(*     documents in opposite orders.                                       *)
(*   - SpecEstimate: attemptAIEstimation of the popup and the Prompt API   *)
(*     wrapper (chrome-extension/lib/prompt-api.js), one await at a time.  *)
(*   - SpecPopup: the popup's sections, its edit form and its handlers,    *)
(*     which run until their next await; several may be in flight.         *)
(*   - SpecAppend: saveRecord calls alone, one more than Spec allows.      *)
(*   - SpecRace: store calls whose read and write are separate steps.      *)
(*                                                                         *)
(* Encodings                                                               *)
(*   - amount is a JavaScript number; the model keeps it in half           *)
(*     millilitres (2 * ml) so that 3.5 ml is the integer 7 and 51 ml is   *)
(*     102.  An amount is an integer number of ml iff it is even.          *)
(*   - a timestamp is the millisecond clock value; toISOString() and       *)
(*     new Date(iso) are inverse at millisecond precision, so createdAt    *)
(*     and updatedAt are kept as that integer.  Only parseable dates are   *)
(*     modelled.                                                           *)
(*   - the JavaScript value undefined of a text field is the string        *)
(*     "undefined"; null is "null".                                        *)
(*   - seq is a history field of the model (not data of the program): the  *)
(*     position of the record in the order of insertion into the store.    *)
(***************************************************************************)
EXTENDS Integers, Sequences, FiniteSets, TLC

\* ---------------------------------------------------------------- bounds
MaxTime == 2
MaxSeq == 2
MaxUpdates == 1
MaxDocLen == 2

\* README "Flow Amount (ml): ... 0-50ml, integers only"
MaxAmount == 50

\* prompt-api.js: estimatedVolume > 50 is no valid estimate
MaxVolume == 50

VARIABLES
  disk,      \* chrome.storage.local: [present, records] under STORAGE_KEY
  now,       \* the millisecond clock read by new Date()
  nextSeq,   \* history: number of records inserted so far
  numUpdates,\* history: number of updateRecord calls so far
  snapshot,  \* the document last returned by exportToJSON, held by the user
  last,      \* the last operation: its name and what it returned or threw
  mirror,    \* SpecMerge: a second copy of the store and the imports still to run
  estimation,\* SpecEstimate: the attemptAIEstimation call in progress
  popup,     \* SpecPopup: the popup's section, form and handlers in flight
  calls      \* SpecRace: store calls between their read and their write

vars == <<disk, now, nextSeq, numUpdates, snapshot, last, mirror, estimation, popup, calls>>

\* ------------------------------------------------------------ input sets
Ids == {"a", "b"}

\* amounts in half millilitres: -1, 0, 3.5, 50 and 51 ml
Amounts == {-2, 7, 100, 102}

Falsy == {"undefined", ""}

\* the ISO text of the one instant the edit form of the model can hold
ISO1 == "2024-12-25T14:30:00.000Z"
\* the ISO text of the last-modified instant of the files of the popup
ISO2 == "2024-12-26T09:00:00.000Z"

\* recordData objects handed to saveRecord
RecordInputs ==
  {[datetime |-> ISO1, amount |-> 100, memo |-> "note", source |-> "ai"],
   [datetime |-> ISO1, amount |-> 0, memo |-> "undefined", source |-> "undefined"],
   [datetime |-> ISO1, amount |-> 102, memo |-> "note", source |-> "manual"],
   [datetime |-> ISO1, amount |-> -2, memo |-> "note", source |-> "manual"],
   [datetime |-> ISO1, amount |-> 7, memo |-> "note", source |-> "manual"]}

\* ----------------------------------------------------------- the substrate
\* the value under STORAGE_KEY before anything was stored
NoDisk == [present |-> FALSE, records |-> <<>>]

\* result[this.STORAGE_KEY] || []
StoredOrEmpty(d) == IF d.present THEN d.records ELSE <<>>

\* ------------------------------------------------------------ getAllRecords
RECURSIVE InsertDesc(_, _)
\* r takes its place after every record that the comparator does not put
\* behind it: new Date(b.createdAt) - new Date(a.createdAt) <= 0
InsertDesc(s, r) ==
  IF s = <<>> THEN <<r>>
  ELSE IF Head(s).createdAt >= r.createdAt
       THEN <<Head(s)>> \o InsertDesc(Tail(s), r)
       ELSE <<r>> \o s

RECURSIVE SortNewestFirst(_)
\* Array.prototype.sort is stable
SortNewestFirst(s) ==
  IF s = <<>> THEN <<>>
  ELSE InsertDesc(SortNewestFirst(SubSeq(s, 1, Len(s) - 1)), s[Len(s)])

getAllRecords(d) == SortNewestFirst(StoredOrEmpty(d))

\* -------------------------------------------------------------- the clock
\* a later new Date(): the clock may have advanced by a millisecond
Later(t) == {u \in t..MaxTime : u <= t + 1}

\* the user holds an exported document only until the next operation
NoSnapshot == [kind |-> "none"]

\* what a call returned or threw; a resolved importFromJSON leaves the
\* document it was given and the number it returned; again: the call before
\* it was the same call (of the same document) and resolved too
Outcome(op, status) ==
  [op |-> op, status |-> status, count |-> 0, doc |-> NoSnapshot, ofSnapshot |-> FALSE,
   again |-> FALSE]

\* --------------------------------------------------------------- saveRecord
generateId == Ids

\* a || b on text
OrElse(v, default) == IF v \in Falsy THEN default ELSE v

\* mutant of NewRecord: the source handed in is dropped
NewRecordAlwaysManual(recordData, id, created, updated, seq) ==
  [id |-> id,
   datetime |-> recordData.datetime,
   amount |-> recordData.amount,
   memo |-> OrElse(recordData.memo, ""),
   source |-> "manual",
   imageData |-> "null",
   createdAt |-> created,
   updatedAt |-> updated,
   seq |-> seq]

NewRecord(recordData, id, created, updated, seq) ==
  [id |-> id,
   datetime |-> recordData.datetime,
   amount |-> recordData.amount,
   memo |-> OrElse(recordData.memo, ""),
   source |-> OrElse(recordData.source, "manual"),
   imageData |-> "null",
   createdAt |-> created,
   updatedAt |-> updated,
   seq |-> seq]

\* records.push(newRecord)
PushRecord(records, newRecord) == Append(records, newRecord)

\* the body of saveRecord(recordData), called by caller
SaveRecordStep(caller, recordData) ==
  /\ UNCHANGED numUpdates
  /\ snapshot' = NoSnapshot
  /\ \/ \* getAllRecords rejects: chrome.runtime.lastError on get
        /\ last' = Outcome(caller, "PersistenceError")
        /\ UNCHANGED <<disk, now, nextSeq>>
     \/ \E id \in generateId, updated \in Later(now) :
          LET newRecord == NewRecord(recordData, id, now, updated, nextSeq + 1)
              records == PushRecord(getAllRecords(disk), newRecord)
          IN /\ now' = updated
             /\ \/ \* chrome.runtime.lastError on set
                   /\ last' = Outcome(caller, "PersistenceError")
                   /\ UNCHANGED <<disk, nextSeq>>
                \/ /\ disk' = [present |-> TRUE, records |-> records]
                   /\ nextSeq' = nextSeq + 1
                   /\ last' = Outcome(caller, "ok")

\* saveRecord(recordData), called by caller, while insertions are left
SaveRecordCall(caller, recordData) ==
  /\ nextSeq < MaxSeq
  /\ SaveRecordStep(caller, recordData)

saveRecord(recordData) == SaveRecordCall("saveRecord", recordData)

\* ---------------------------------------------------------------- handleSave
\* the edit form: dateInput.value, amountInput.value (<<>> when it holds no
\* number, <<h>> for a number of h half millilitres), memoInput.value
DateInputs == {"", "2024-12-25T14:30"}
AmountInputs == {<<>>} \cup {<<a>> : a \in Amounts}
MemoInputs == {" note "}

\* isNaN(parseFloat(v))
IsNaNText(v) == v = <<>>
parseFloat(v) == v[1]

\* String.prototype.trim on the memo texts of the model
trim(s) == IF s = " note " THEN "note" ELSE s

\* new Date(dateInput.value).toISOString() of a filled date field, with the
\* local zone at UTC
toISOString(local) == CASE local = "2024-12-25T14:30" -> ISO1
                         [] local = "2024-12-26T09:00" -> ISO2

handleSave(dateInput, amountInput, memoInput) ==
  IF dateInput = ""
  THEN \* showError('Please enter date and time')
       /\ last' = Outcome("handleSave", "shownError")
       /\ snapshot' = NoSnapshot
       /\ UNCHANGED <<disk, now, nextSeq, numUpdates>>
  ELSE IF IsNaNText(amountInput) \/ parseFloat(amountInput) < 0
  THEN \* showError('Please enter a valid flow amount')
       /\ last' = Outcome("handleSave", "shownError")
       /\ snapshot' = NoSnapshot
       /\ UNCHANGED <<disk, now, nextSeq, numUpdates>>
  ELSE SaveRecordCall("handleSave",
         [datetime |-> toISOString(dateInput),
          amount |-> parseFloat(amountInput),
          memo |-> trim(memoInput),
          source |-> "manual"])

\* -------------------------------------------------------------- updateRecord
\* partial objects handed to updateRecord as updates
UpdateInputs ==
  {<<>>, [amount |-> 102, memo |-> "edited"]}
    \cup {[id |-> i, createdAt |-> t] : i \in Ids, t \in {MaxTime}}

\* mutant of findIndex: an id that is absent finds the first record
findIndexOrFirst(records, id) ==
  IF \E i \in 1..Len(records) : records[i].id = id
  THEN CHOOSE i \in 1..Len(records) :
         /\ records[i].id = id
         /\ \A j \in 1..(i - 1) : records[j].id # id
  ELSE IF records # <<>> THEN 1 ELSE 0

\* records.findIndex(r => r.id === id), counting from 1; 0 stands for -1
findIndex(records, id) ==
  IF \E i \in 1..Len(records) : records[i].id = id
  THEN CHOOSE i \in 1..Len(records) :
         /\ records[i].id = id
         /\ \A j \in 1..(i - 1) : records[j].id # id
  ELSE 0

\* mutant of MergeUpdates: updatedAt is not refreshed
MergeUpdatesStaleStamp(record, updates, t) ==
  [f \in DOMAIN record |->
     IF f \in DOMAIN updates THEN updates[f] ELSE record[f]]

\* { ...records[index], ...updates, updatedAt: new Date().toISOString() }
MergeUpdates(record, updates, t) ==
  [f \in DOMAIN record |->
     IF f = "updatedAt" THEN t
     ELSE IF f \in DOMAIN updates THEN updates[f]
     ELSE record[f]]

updateRecord(id, updates) ==
  /\ numUpdates < MaxUpdates
  /\ numUpdates' = numUpdates + 1
  /\ snapshot' = NoSnapshot
  /\ UNCHANGED <<now, nextSeq>>
  /\ \/ \* getAllRecords rejects
        /\ last' = Outcome("updateRecord", "PersistenceError")
        /\ UNCHANGED disk
     \/ LET records == getAllRecords(disk)
            index == findIndex(records, id)
        IN IF index = 0
           THEN \* throw new Error('Record not found')
                /\ last' = Outcome("updateRecord", "NotFound")
                /\ UNCHANGED disk
           ELSE \/ \* chrome.runtime.lastError on set
                   /\ last' = Outcome("updateRecord", "PersistenceError")
                   /\ UNCHANGED disk
                \/ /\ disk' = [present |-> TRUE,
                               records |-> [records EXCEPT ![index] =
                                              MergeUpdates(records[index], updates, now)]]
                   /\ last' = Outcome("updateRecord", "ok")

\* -------------------------------------------------------------- deleteRecord
\* records.filter(r => r.id !== id)
FilterOut(records, id) == SelectSeq(records, LAMBDA r : r.id # id)

\* mutant of deleteRecord: the write has gone through when the error is reported
deleteRecordFailingLate(id) ==
  /\ snapshot' = NoSnapshot
  /\ UNCHANGED <<now, nextSeq, numUpdates>>
  /\ disk' = [present |-> TRUE, records |-> FilterOut(getAllRecords(disk), id)]
  /\ \/ last' = Outcome("deleteRecord", "PersistenceError")
     \/ last' = Outcome("deleteRecord", "ok")

deleteRecord(id) ==
  /\ snapshot' = NoSnapshot
  /\ UNCHANGED <<now, nextSeq, numUpdates>>
  /\ \/ \* getAllRecords rejects, or chrome.runtime.lastError on set
        /\ last' = Outcome("deleteRecord", "PersistenceError")
        /\ UNCHANGED disk
     \/ /\ disk' = [present |-> TRUE, records |-> FilterOut(getAllRecords(disk), id)]
        /\ last' = Outcome("deleteRecord", "ok")

\* ----------------------------------------------------------- clearAllRecords
\* mutant of clearAllRecords: nothing to remove is an error
clearAllRecordsUnlessEmpty ==
  /\ snapshot' = NoSnapshot
  /\ UNCHANGED <<now, nextSeq, numUpdates>>
  /\ \/ /\ last' = Outcome("clearAllRecords", "PersistenceError")
        /\ UNCHANGED disk
     \/ /\ disk' = NoDisk
        /\ last' = IF StoredOrEmpty(disk) = <<>>
                   THEN Outcome("clearAllRecords", "NotFound")
                   ELSE Outcome("clearAllRecords", "ok")

clearAllRecords ==
  /\ snapshot' = NoSnapshot
  /\ UNCHANGED <<now, nextSeq, numUpdates>>
  /\ \/ \* chrome.runtime.lastError on remove
        /\ last' = Outcome("clearAllRecords", "PersistenceError")
        /\ UNCHANGED disk
     \/ /\ disk' = NoDisk
        /\ last' = [Outcome("clearAllRecords", "ok") EXCEPT
                      !.again = (last.op = "clearAllRecords" /\ last.status = "ok")]

\* -------------------------------------------------------------- exportToJSON
\* a record as JSON text carries it: the program's fields, not the history field
JSONRecord(r) ==
  [id |-> r.id, datetime |-> r.datetime, amount |-> r.amount, memo |-> r.memo,
   source |-> r.source, imageData |-> r.imageData,
   createdAt |-> r.createdAt, updatedAt |-> r.updatedAt]

JSONRecords(records) == [i \in 1..Len(records) |-> JSONRecord(records[i])]

\* mutant of ExportDocument: only the newest record is exported
ExportDocumentNewestOnly(records, t) ==
  [kind |-> "object", exportDate |-> t, version |-> "1.0.0",
   hasRecords |-> TRUE,
   records |-> JSONRecords(SubSeq(records, 1, IF records = <<>> THEN 0 ELSE 1))]

\* JSON.stringify({ exportDate, version, records }, null, 2)
ExportDocument(records, t) ==
  [kind |-> "object", exportDate |-> t, version |-> "1.0.0",
   hasRecords |-> TRUE, records |-> JSONRecords(records)]

exportToJSON ==
  /\ UNCHANGED <<disk, now, nextSeq, numUpdates>>
  /\ \/ \* getAllRecords rejects
        /\ last' = Outcome("exportToJSON", "PersistenceError")
        /\ snapshot' = NoSnapshot
     \/ /\ snapshot' = ExportDocument(getAllRecords(disk), now)
        /\ last' = Outcome("exportToJSON", "ok")

\* ------------------------------------------------------------ importFromJSON
\* entries of the documents the user imports: amount 50 ml or 51 ml
DocEntry(id, amount, t) ==
  [id |-> id, datetime |-> "2024-01-01T00:00:00.000Z", amount |-> amount,
   memo |-> "imported", source |-> "ai", imageData |-> "null",
   createdAt |-> t, updatedAt |-> t]

DocEntries == {DocEntry("a", 100, 1), DocEntry("b", 102, MaxTime)}

RECURSIVE SeqsUpTo(_, _)
SeqsUpTo(S, n) ==
  IF n = 0 THEN {<<>>}
  ELSE LET shorter == SeqsUpTo(S, n - 1)
       IN shorter \cup {Append(q, x) : q \in {p \in shorter : Len(p) = n - 1}, x \in S}

\* text that is no JSON, an object with no records field, and documents
Documents ==
  {[kind |-> "invalid", exportDate |-> 0, version |-> "", hasRecords |-> FALSE,
    records |-> <<>>],
   [kind |-> "object", exportDate |-> 0, version |-> "1.0.0", hasRecords |-> FALSE,
    records |-> <<>>]}
  \cup {[kind |-> "object", exportDate |-> 0, version |-> "1.0.0", hasRecords |-> TRUE,
         records |-> q] : q \in SeqsUpTo(DocEntries, MaxDocLen)}

\* data.records || []
ImportedRecords(doc) == IF doc.hasRecords THEN doc.records ELSE <<>>

\* mutant of NewRecords: no entry is skipped
NewRecordsWithoutSkip(importedRecords, existingRecords) == importedRecords

\* importedRecords.filter(r => !existingIds.has(r.id))
NewRecords(importedRecords, existingRecords) ==
  LET existingIds == {existingRecords[i].id : i \in 1..Len(existingRecords)}
  IN SelectSeq(importedRecords, LAMBDA r : r.id \notin existingIds)

\* mutant of Inserted: the entry is stored under another id
InsertedRenamed(entry, n) ==
  [id |-> CHOOSE i \in Ids : i # entry.id,
   datetime |-> entry.datetime, amount |-> entry.amount,
   memo |-> entry.memo, source |-> entry.source, imageData |-> entry.imageData,
   createdAt |-> entry.createdAt, updatedAt |-> entry.updatedAt, seq |-> n]

\* an entry as the store holds it, the n-th record inserted
Inserted(entry, n) ==
  [id |-> entry.id, datetime |-> entry.datetime, amount |-> entry.amount,
   memo |-> entry.memo, source |-> entry.source, imageData |-> entry.imageData,
   createdAt |-> entry.createdAt, updatedAt |-> entry.updatedAt, seq |-> n]

\* mutant of AllRecords: the imported records replace the stored ones
AllRecordsReplacing(existingRecords, newRecords, n) ==
  [i \in 1..Len(newRecords) |-> Inserted(newRecords[i], n + i)]

\* [...existingRecords, ...newRecords]
AllRecords(existingRecords, newRecords, n) ==
  existingRecords \o [i \in 1..Len(newRecords) |-> Inserted(newRecords[i], n + i)]

importFromJSON(doc) ==
  IF doc.kind = "invalid"
  THEN \* JSON.parse throws
       /\ last' = Outcome("importFromJSON", "SyntaxError")
       /\ snapshot' = NoSnapshot
       /\ UNCHANGED <<disk, now, nextSeq, numUpdates>>
  ELSE LET existingRecords == getAllRecords(disk)
           newRecords == NewRecords(ImportedRecords(doc), existingRecords)
       IN /\ nextSeq + Len(newRecords) <= MaxSeq
          /\ snapshot' = IF doc = snapshot /\ Len(newRecords) = 0
                         THEN snapshot ELSE NoSnapshot
          /\ UNCHANGED <<now, numUpdates>>
          /\ \/ \* getAllRecords rejects, or chrome.runtime.lastError on set
                /\ last' = Outcome("importFromJSON", "PersistenceError")
                /\ UNCHANGED <<disk, nextSeq>>
             \/ /\ disk' = [present |-> TRUE,
                            records |-> AllRecords(existingRecords, newRecords, nextSeq)]
                /\ nextSeq' = nextSeq + Len(newRecords)
                /\ last' = [Outcome("importFromJSON", "ok") EXCEPT
                              !.count = Len(newRecords),
                              !.doc = doc,
                              !.ofSnapshot = (doc = snapshot),
                              !.again = (/\ last.op = "importFromJSON"
                                         /\ last.status = "ok"
                                         /\ last.doc = doc)]

\* the documents at hand: the ones the user wrote and the one just exported
ImportInputs == Documents \cup (IF snapshot = NoSnapshot THEN {} ELSE {snapshot})

\* ------------------------------------------------------------------- clock
Tick ==
  /\ now < MaxTime
  /\ now' = now + 1
  /\ UNCHANGED <<disk, nextSeq, numUpdates, snapshot, last>>

\* ---------------------------------------------------- attemptAIEstimation
\* the result object of attemptAIEstimation; "undefined" for a key it lacks;
\* estimatedVolume is <<v>> for the number v and <<>> when it is no number
Result(success, estimatedVolume, confidence, reason) ==
  [success |-> success, estimatedVolume |-> estimatedVolume,
   confidence |-> confidence, reason |-> reason]

\* no call in progress: pc is the await the call stands at, defined whether
\* the page has a global LanguageModel, queries the outcomes of the call's
\* availability queries, created and prompted whether LanguageModel.create
\* and session.prompt have been called
NoEstimation ==
  [pc |-> "idle", defined |-> FALSE, queries |-> <<>>, created |-> FALSE,
   prompted |-> FALSE,
   result |-> Result(FALSE, <<>>, "undefined", "undefined")]

\* ------------------------------------------------------------------ the popup
\* DOMContentLoaded: showSection('main'), an empty form, nothing selected.
\* amountInput is <<>> when the field holds no number and <<h>> for h half
\* millilitres; amountFrom is history: who put the amount there; tasks are
\* the handlers in flight, in the order they started
NoPopup ==
  [section |-> "main", selectedFile |-> "null", dateInput |-> "",
   amountInput |-> <<>>, amountFrom |-> "none", badge |-> "none", tasks |-> <<>>,
   resumed |-> "none"]

\* no store call is between its read and its write
NoCalls == <<>>

\* no second copy of the store
NoMirror == [disk |-> NoDisk, nextSeq |-> 0, forked |-> FALSE, here |-> <<>>, there |-> <<>>]

Init ==
  /\ disk = NoDisk
  /\ now = 1
  /\ nextSeq = 0
  /\ numUpdates = 0
  /\ snapshot = NoSnapshot
  /\ last = Outcome("none", "ok")
  /\ mirror = NoMirror
  /\ estimation = NoEstimation
  /\ popup = NoPopup
  /\ calls = NoCalls

Next ==
  \/ Tick /\ UNCHANGED <<mirror, estimation, popup, calls>>
  \/ \E recordData \in RecordInputs : saveRecord(recordData) /\ UNCHANGED <<mirror, estimation, popup, calls>>
  \/ \E dateInput \in DateInputs, amountInput \in AmountInputs, memoInput \in MemoInputs :
       handleSave(dateInput, amountInput, memoInput) /\ UNCHANGED <<mirror, estimation, popup, calls>>
  \/ \E id \in Ids, updates \in UpdateInputs : updateRecord(id, updates) /\ UNCHANGED <<mirror, estimation, popup, calls>>
  \/ \E id \in Ids : deleteRecord(id) /\ UNCHANGED <<mirror, estimation, popup, calls>>
  \/ clearAllRecords /\ UNCHANGED <<mirror, estimation, popup, calls>>
  \/ exportToJSON /\ UNCHANGED <<mirror, estimation, popup, calls>>
  \/ \E doc \in ImportInputs : importFromJSON(doc) /\ UNCHANGED <<mirror, estimation, popup, calls>>

Spec == Init /\ [][Next]_vars

\* ------------------------------------------- two orders of the same imports
\* entries of the documents of SpecMerge: two of them carry the id "a"
MergeEntries == DocEntries \cup {DocEntry("a", 0, MaxTime)}

MergeDocuments ==
  {[kind |-> "object", exportDate |-> 0, version |-> "1.0.0", hasRecords |-> FALSE,
    records |-> <<>>]}
  \cup {[kind |-> "object", exportDate |-> 0, version |-> "1.0.0", hasRecords |-> TRUE,
         records |-> q] : q \in SeqsUpTo(MergeEntries, MaxDocLen)}

\* the number importFromJSON(doc) returns on the store d
Added(d, doc) == Len(NewRecords(ImportedRecords(doc), getAllRecords(d)))

\* the value importFromJSON(doc) sets under STORAGE_KEY on the store d
MergedStore(d, doc, n) ==
  [present |-> TRUE,
   records |-> AllRecords(getAllRecords(d),
                          NewRecords(ImportedRecords(doc), getAllRecords(d)), n)]

\* before the copies part: importFromJSON(doc) resolves on the store, and the
\* copy is the same store
ImportIntoBoth(doc) ==
  /\ ~mirror.forked
  /\ importFromJSON(doc)
  /\ last'.status = "ok"
  /\ mirror' = [mirror EXCEPT !.disk = disk', !.nextSeq = nextSeq']

\* the user takes two documents: this store will import d1 then d2, the copy
\* d2 then d1
ChooseOrders(d1, d2) ==
  /\ ~mirror.forked
  /\ mirror' = [mirror EXCEPT !.forked = TRUE, !.here = <<d1, d2>>, !.there = <<d2, d1>>]
  /\ UNCHANGED <<disk, now, nextSeq, numUpdates, snapshot, last>>

\* the next importFromJSON of this store resolves
ImportHere ==
  /\ mirror.forked
  /\ mirror.here # <<>>
  /\ importFromJSON(Head(mirror.here))
  /\ last'.status = "ok"
  /\ mirror' = [mirror EXCEPT !.here = Tail(mirror.here)]

\* the next importFromJSON of the copy resolves
ImportThere ==
  /\ mirror.forked
  /\ mirror.there # <<>>
  /\ LET doc == Head(mirror.there)
     IN /\ mirror.nextSeq + Added(mirror.disk, doc) <= MaxSeq
        /\ mirror' = [mirror EXCEPT
                        !.disk = MergedStore(mirror.disk, doc, mirror.nextSeq),
                        !.nextSeq = mirror.nextSeq + Added(mirror.disk, doc),
                        !.there = Tail(mirror.there)]
  /\ UNCHANGED <<disk, now, nextSeq, numUpdates, snapshot, last>>

NextMerge ==
  \/ \E doc \in MergeDocuments : ImportIntoBoth(doc) /\ UNCHANGED <<estimation, popup, calls>>
  \/ \E d1, d2 \in MergeDocuments : ChooseOrders(d1, d2) /\ UNCHANGED <<estimation, popup, calls>>
  \/ ImportHere /\ UNCHANGED <<estimation, popup, calls>>
  \/ ImportThere /\ UNCHANGED <<estimation, popup, calls>>

SpecMerge == Init /\ [][NextMerge]_vars

\* ------------------------------------------------------ the Prompt API wrapper
\* what a query of the capability yields: "absent" with no global
\* LanguageModel; else a rejected LanguageModel.availability() or the status
\* it resolves to
AvailabilityOutcomes(defined) ==
  IF defined
  THEN {"throws", "unavailable", "downloadable", "downloading", "available"}
  ELSE {"absent"}

\* mutant of checkAvailability: only a model that is ready counts
checkAvailabilityOnlyReady(outcome) ==
  IF outcome = "absent" THEN FALSE
  ELSE IF outcome = "throws" THEN FALSE
  ELSE outcome = "available"

checkAvailability(outcome) ==
  IF outcome = "absent" THEN FALSE
  ELSE IF outcome = "throws" THEN FALSE
  ELSE outcome # "unavailable"

\* error.message of what LanguageModel.create, session.append or
\* session.prompt rejects with
Messages == {"failed", ""}

\* an awaited call of the Prompt API: it resolves, or rejects with a message
CallOutcomes ==
  {[thrown |-> FALSE, message |-> "undefined"]}
    \cup {[thrown |-> TRUE, message |-> m] : m \in Messages}

\* texts session.prompt resolves to, as sequences of pieces: a signed decimal
\* numeral is one piece, the other pieces are runs of other characters
Numeral(n) == [numeral |-> TRUE, n |-> n, chars |-> ""]
Chars(c) == [numeral |-> FALSE, n |-> 0, chars |-> c]
Whitespace == {Chars(" "), Chars("\n")}
Responses ==
  {<<Numeral(n)>> : n \in -1..(MaxVolume + 1)}
    \cup {<<>>, <<Chars("abc")>>, <<Chars(" "), Numeral(25), Chars("\n")>>,
          <<Numeral(3), Chars(".5")>>, <<Numeral(25), Chars(" ml")>>,
          <<Chars("about "), Numeral(25)>>}

RECURSIVE trimStart(_)
trimStart(text) ==
  IF text # <<>> /\ Head(text) \in Whitespace THEN trimStart(Tail(text)) ELSE text

RECURSIVE trimEnd(_)
trimEnd(text) ==
  IF text # <<>> /\ text[Len(text)] \in Whitespace
  THEN trimEnd(SubSeq(text, 1, Len(text) - 1)) ELSE text

\* result.trim()
trimResult(text) == trimEnd(trimStart(text))

\* parseInt(text, 10): <<n>> for the numeral n the text starts with, after
\* white space; <<>> for NaN
parseInt(text) ==
  LET t == trimStart(text)
  IN IF t # <<>> /\ Head(t).numeral THEN <<Head(t).n>> ELSE <<>>

\* mutant of Confidence: 40 ml is no longer in the normal range
ConfidenceBelowForty(estimatedVolume) ==
  IF estimatedVolume >= 10 /\ estimatedVolume < 40 THEN "high"
  ELSE IF estimatedVolume < 5 \/ estimatedVolume > 45 THEN "low"
  ELSE "medium"

\* let confidence = 'medium'; if (...) 'high'; else if (...) 'low'
Confidence(estimatedVolume) ==
  IF estimatedVolume >= 10 /\ estimatedVolume <= 40 THEN "high"
  ELSE IF estimatedVolume < 5 \/ estimatedVolume > 45 THEN "low"
  ELSE "medium"

\* attemptAIEstimation's result when estimateFlowFromImage has caught an
\* error: if (result.error) is false for the empty message
CaughtError(message) ==
  IF message # ""
  THEN Result(FALSE, <<>>, "undefined", message)
  ELSE Result(TRUE, <<>>, "null", "undefined")

\* attemptAIEstimation(imageFile) is called; wrapperLoaded: typeof
\* PromptAPIWrapper !== 'undefined'; defined: typeof LanguageModel !== 'undefined'
attemptAIEstimation(wrapperLoaded, defined) ==
  /\ estimation.pc \in {"idle", "done"}
  /\ estimation' =
       IF wrapperLoaded
       THEN [NoEstimation EXCEPT !.pc = "attemptCheck", !.defined = defined]
       ELSE [NoEstimation EXCEPT
               !.pc = "done",
               !.defined = defined,
               !.result = Result(FALSE, <<>>, "undefined", "API wrapper not loaded")]
  /\ UNCHANGED <<disk, now, nextSeq, numUpdates, snapshot, last, mirror, popup, calls>>

\* await PromptAPIWrapper.checkAvailability() in attemptAIEstimation
AttemptCheckAvailability(outcome) ==
  /\ estimation.pc = "attemptCheck"
  /\ estimation' =
       IF checkAvailability(outcome)
       THEN [estimation EXCEPT !.pc = "estimateCheck",
                               !.queries = Append(@, outcome)]
       ELSE [estimation EXCEPT
               !.pc = "done",
               !.queries = Append(@, outcome),
               !.result = Result(FALSE, <<>>, "undefined", "API not available")]
  /\ UNCHANGED <<disk, now, nextSeq, numUpdates, snapshot, last, mirror, popup, calls>>

\* await this.checkAvailability() in estimateFlowFromImage
EstimateCheckAvailability(outcome) ==
  /\ estimation.pc = "estimateCheck"
  /\ estimation' =
       IF checkAvailability(outcome)
       THEN [estimation EXCEPT !.pc = "create", !.queries = Append(@, outcome)]
       ELSE [estimation EXCEPT
               !.pc = "done",
               !.queries = Append(@, outcome),
               !.result = CaughtError("LanguageModel not available")]
  /\ UNCHANGED <<disk, now, nextSeq, numUpdates, snapshot, last, mirror, popup, calls>>

\* await LanguageModel.create({...})
LanguageModelCreate(outcome) ==
  /\ estimation.pc = "create"
  /\ estimation' =
       IF outcome.thrown
       THEN [estimation EXCEPT !.pc = "done", !.created = TRUE,
                               !.result = CaughtError(outcome.message)]
       ELSE [estimation EXCEPT !.pc = "append", !.created = TRUE]
  /\ UNCHANGED <<disk, now, nextSeq, numUpdates, snapshot, last, mirror, popup, calls>>

\* await session.append([{ role: 'user', content: [image] }])
SessionAppend(outcome) ==
  /\ estimation.pc = "append"
  /\ estimation' =
       IF outcome.thrown
       THEN [estimation EXCEPT !.pc = "done", !.result = CaughtError(outcome.message)]
       ELSE [estimation EXCEPT !.pc = "prompt"]
  /\ UNCHANGED <<disk, now, nextSeq, numUpdates, snapshot, last, mirror, popup, calls>>

\* await session.prompt(promptText) rejects
SessionPromptThrows(message) ==
  /\ estimation.pc = "prompt"
  /\ estimation' = [estimation EXCEPT !.pc = "done", !.prompted = TRUE,
                                      !.result = CaughtError(message)]
  /\ UNCHANGED <<disk, now, nextSeq, numUpdates, snapshot, last, mirror, popup, calls>>

\* await session.prompt(promptText) resolves to text: parse, validate, grade
SessionPrompt(text) ==
  /\ estimation.pc = "prompt"
  /\ LET estimatedVolume == parseInt(trimResult(text))
     IN estimation' =
          IF \/ estimatedVolume = <<>>
             \/ estimatedVolume[1] < 0
             \/ estimatedVolume[1] > MaxVolume
          THEN [estimation EXCEPT !.pc = "done", !.prompted = TRUE,
                                  !.result = CaughtError("Invalid estimation result")]
          ELSE [estimation EXCEPT
                  !.pc = "done", !.prompted = TRUE,
                  !.result = Result(TRUE, estimatedVolume,
                                    Confidence(estimatedVolume[1]), "undefined")]
  /\ UNCHANGED <<disk, now, nextSeq, numUpdates, snapshot, last, mirror, popup, calls>>

NextEstimate ==
  \/ \E wrapperLoaded, defined \in BOOLEAN : attemptAIEstimation(wrapperLoaded, defined)
  \/ \E outcome \in AvailabilityOutcomes(estimation.defined) :
       AttemptCheckAvailability(outcome)
  \/ \E outcome \in AvailabilityOutcomes(estimation.defined) :
       EstimateCheckAvailability(outcome)
  \/ \E outcome \in CallOutcomes : LanguageModelCreate(outcome)
  \/ \E outcome \in CallOutcomes : SessionAppend(outcome)
  \/ \E message \in Messages : SessionPromptThrows(message)
  \/ \E text \in Responses : SessionPrompt(text)

SpecEstimate == Init /\ [][NextEstimate]_vars

\* =============================================================== SpecAppend
\* saveRecord alone, called one more time than Spec allows, with the clock
\* moving between the calls

\* saveRecord calls of one run
MaxAppends == 3

saveRecordAgain(recordData) ==
  /\ nextSeq < MaxAppends
  /\ SaveRecordStep("saveRecord", recordData)
  /\ UNCHANGED <<mirror, estimation, popup, calls>>

NextAppend ==
  \/ \E recordData \in RecordInputs : saveRecordAgain(recordData)
  \/ Tick /\ UNCHANGED <<mirror, estimation, popup, calls>>

SpecAppend == Init /\ [][NextAppend]_vars

\* the sequence s without its element i
RemoveAt(s, i) == SubSeq(s, 1, i - 1) \o SubSeq(s, i + 1, Len(s))

\* ================================================================= SpecRace
\* saveRecord and deleteRecord as the promises run them: a call reads the
\* store at await getAllRecords(), computes the array it will write, and
\* writes it in the callback of chrome.storage.local.set; the steps of other
\* calls can come between the two.

\* store calls in flight at once
MaxCalls == 2

\* a call that has not gone past its await getAllRecords()
Call(op, id, recordData) ==
  [op |-> op, pc |-> "getAllRecords", id |-> id, recordData |-> recordData, records |-> <<>>]

\* deleteRecord takes no recordData
NoRecordData == [datetime |-> "", amount |-> 0, memo |-> "", source |-> ""]

raceOnly == <<numUpdates, snapshot, mirror, estimation, popup>>

\* saveRecord(recordData) is called
BeginSaveRecord(recordData) ==
  /\ Len(calls) < MaxCalls
  /\ nextSeq + Cardinality({i \in 1..Len(calls) : calls[i].pc = "getAllRecords"}) < MaxSeq
  /\ calls' = Append(calls, Call("saveRecord", "", recordData))
  /\ UNCHANGED <<disk, now, nextSeq, last>>
  /\ UNCHANGED raceOnly

\* deleteRecord(id) is called
BeginDeleteRecord(id) ==
  /\ Len(calls) < MaxCalls
  /\ calls' = Append(calls, Call("deleteRecord", id, NoRecordData))
  /\ UNCHANGED <<disk, now, nextSeq, last>>
  /\ UNCHANGED raceOnly

\* await this.getAllRecords() of call i resolves or rejects; on to the array
\* to write
CallReads(i) ==
  /\ i \in 1..Len(calls)
  /\ calls[i].pc = "getAllRecords"
  /\ UNCHANGED disk
  /\ \/ \* chrome.runtime.lastError on get
        /\ calls' = RemoveAt(calls, i)
        /\ last' = Outcome(calls[i].op, "PersistenceError")
        /\ UNCHANGED <<now, nextSeq>>
     \/ /\ calls[i].op = "saveRecord"
        /\ \E id \in generateId, updated \in Later(now) :
             LET newRecord == NewRecord(calls[i].recordData, id, now, updated, nextSeq + 1)
             IN /\ calls' = [calls EXCEPT ![i].pc = "set",
                                          ![i].records = PushRecord(getAllRecords(disk), newRecord)]
                /\ now' = updated
                /\ nextSeq' = nextSeq + 1
        /\ UNCHANGED last
     \/ /\ calls[i].op = "deleteRecord"
        /\ calls' = [calls EXCEPT ![i].pc = "set",
                                  ![i].records = FilterOut(getAllRecords(disk), calls[i].id)]
        /\ UNCHANGED <<now, nextSeq, last>>
  /\ UNCHANGED raceOnly

\* the callback of chrome.storage.local.set of call i: resolve or reject
CallSets(i) ==
  /\ i \in 1..Len(calls)
  /\ calls[i].pc = "set"
  /\ calls' = RemoveAt(calls, i)
  /\ \/ /\ last' = Outcome(calls[i].op, "PersistenceError")
        /\ UNCHANGED disk
     \/ /\ disk' = [present |-> TRUE, records |-> calls[i].records]
        /\ last' = Outcome(calls[i].op, "ok")
  /\ UNCHANGED <<now, nextSeq>>
  /\ UNCHANGED raceOnly

NextRace ==
  \/ \E recordData \in RecordInputs : BeginSaveRecord(recordData)
  \/ \E id \in Ids : BeginDeleteRecord(id)
  \/ \E i \in 1..MaxCalls : CallReads(i)
  \/ \E i \in 1..MaxCalls : CallSets(i)

SpecRace == Init /\ [][NextRace]_vars

\* ================================================================ SpecPopup
\* The popup (popup.js): one section is visible at a time, the edit form
\* holds the draft, and handleFileSelect and handleAIReEstimate run until
\* their next await, so that several of them can be in flight.  A button
\* acts when its section is visible; no handler looks at the loading overlay.

\* handlers in flight at once
MaxInFlight == 2

\* one field of an EXIF date text: <<n>> when parseInt reads the number n
\* from it, <<>> when parseInt gives NaN
Field(n) == <<n>>
NaN == <<>>

\* EXIF.getTag(this, 'DateTimeOriginal'): [given, parts], parts being the
\* text split at ' ' and each part split at ':'
NoTag == [given |-> FALSE, parts |-> <<>>]
Tag(parts) == [given |-> TRUE, parts |-> parts]

\* the instant 2024-12-26 09:00 in local fields: new Date(file.lastModified)
LastModified == [valid |-> TRUE, year |-> 2024, month |-> 12, day |-> 26, hours |-> 9, minutes |-> 0]

\* the files the user can pick
Files ==
  {\* "2024:12:25 14:30:45"
   [name |-> "photo.jpg", image |-> TRUE, decodes |-> TRUE,
    tag |-> Tag(<< <<Field(2024), Field(12), Field(25)>>, <<Field(14), Field(30), Field(45)>> >>)],
   \* no DateTimeOriginal
   [name |-> "scan.png", image |-> TRUE, decodes |-> TRUE, tag |-> NoTag],
   \* "2024:12:25", no time part
   [name |-> "dateonly.jpg", image |-> TRUE, decodes |-> TRUE,
    tag |-> Tag(<< <<Field(2024), Field(12), Field(25)>> >>)],
   \* "date time", two parts without a number
   [name |-> "words.jpg", image |-> TRUE, decodes |-> TRUE,
    tag |-> Tag(<< <<NaN>>, <<NaN>> >>)],
   \* EXIF.getTag throws on it
   [name |-> "corrupt.jpg", image |-> TRUE, decodes |-> FALSE, tag |-> NoTag],
   \* file.type does not start with 'image/'
   [name |-> "notes.txt", image |-> FALSE, decodes |-> FALSE, tag |-> NoTag]}

FileNamed(name) == CHOOSE file \in Files : file.name = name

\* parseInt(parts[i]): NaN for undefined
parseIntField(parts, i) == IF i <= Len(parts) THEN parts[i] ELSE NaN

\* new Date(year, month - 1, day, hours, minutes, seconds): an Invalid Date
\* when a field is NaN
InvalidDate == [valid |-> FALSE, year |-> 0, month |-> 0, day |-> 0, hours |-> 0, minutes |-> 0]
NewDate(fields) ==
  IF \E i \in 1..6 : fields[i] = NaN THEN InvalidDate
  ELSE [valid |-> TRUE, year |-> fields[1][1], month |-> fields[2][1], day |-> fields[3][1],
        hours |-> fields[4][1], minutes |-> fields[5][1]]

\* parseEXIFDate(exifDateString): [thrown, date]; parts[1].split throws a
\* TypeError when the text has no second part
parseEXIFDate(exifDateString) ==
  LET parts == exifDateString.parts
  IN IF Len(parts) < 2 THEN [thrown |-> TRUE, date |-> InvalidDate]
     ELSE LET dateParts == parts[1]
              timeParts == parts[2]
          IN [thrown |-> FALSE,
              date |-> NewDate(<<parseIntField(dateParts, 1), parseIntField(dateParts, 2),
                                 parseIntField(dateParts, 3), parseIntField(timeParts, 1),
                                 parseIntField(timeParts, 2), parseIntField(timeParts, 3)>>)]

\* String(n).padStart(2, '0')
padStart(n) == IF n < 10 THEN "0" \o ToString(n) ELSE ToString(n)

\* formatDateForInput(date): the getters of an Invalid Date give NaN
formatDateForInput(date) ==
  IF date.valid
  THEN ToString(date.year) \o "-" \o padStart(date.month) \o "-" \o padStart(date.day)
         \o "T" \o padStart(date.hours) \o ":" \o padStart(date.minutes)
  ELSE "NaN-NaN-NaNTNaN:NaN"

\* dateInput.value = text: a datetime-local field keeps a local date and time
\* and turns any other text into the empty string
DateTimeLocal(text) == IF text = "NaN-NaN-NaNTNaN:NaN" THEN "" ELSE text

\* the body of extractEXIFData(file): [rejected, dateInput]
extractEXIFData(file, dateInput) ==
  IF ~file.decodes THEN [rejected |-> TRUE, dateInput |-> dateInput]
  ELSE IF file.tag.given
  THEN LET exifDate == parseEXIFDate(file.tag)
       IN IF exifDate.thrown THEN [rejected |-> TRUE, dateInput |-> dateInput]
          ELSE [rejected |-> FALSE, dateInput |-> DateTimeLocal(formatDateForInput(exifDate.date))]
  ELSE [rejected |-> FALSE, dateInput |-> DateTimeLocal(formatDateForInput(LastModified))]

\* what attemptAIEstimation can resolve with (SpecEstimate): an estimate of
\* 25 ml, one of 3 ml, a failure, and the result of an error without message
AttemptResults ==
  {Result(TRUE, <<25>>, Confidence(25), "undefined"),
   Result(TRUE, <<3>>, Confidence(3), "undefined"),
   Result(FALSE, <<>>, "undefined", "failed"),
   CaughtError("")}

\* amountInput.value = estimatedVolume, in half millilitres; null gives ''
AmountValue(estimatedVolume) ==
  IF estimatedVolume = <<>> THEN <<>> ELSE <<2 * estimatedVolume[1]>>

\* what the user types into the amount field: 7 ml
TypedAmounts == {<<14>>}

showSection(p, sectionName) == [p EXCEPT !.section = sectionName]

showError(p) == showSection(p, "error")

resetForm(p) ==
  [p EXCEPT !.selectedFile = "null", !.dateInput = "", !.amountInput = <<>>,
            !.amountFrom = "none"]

\* a handler in flight
Task(handler, name, pc) == [handler |-> handler, file |-> name, pc |-> pc]

\* history: which of two overlapping handlers resumed first, and that the
\* other has resumed after it
Resumed(p, i) ==
  IF Len(p.tasks) = 2 THEN (IF i = 1 THEN "older" ELSE "newer")
  ELSE IF p.resumed = "older" THEN "olderThenNewer"
  ELSE IF p.resumed = "newer" THEN "newerThenOlder"
  ELSE "none"

Finish(p, i) == [p EXCEPT !.tasks = RemoveAt(p.tasks, i), !.resumed = Resumed(p, i)]

popupOnly == <<disk, now, nextSeq, numUpdates, snapshot, last, mirror, estimation, calls>>

\* newRecordBtn, newRecordFromSuccessBtn
NewRecordClick ==
  /\ popup.section \in {"main", "success"}
  /\ popup' = showSection(popup, "upload")
  /\ UNCHANGED popupOnly

\* backToMainBtn, retryBtn
BackToMainClick ==
  /\ popup.section \in {"upload", "error"}
  /\ popup' = showSection(popup, "main")
  /\ UNCHANGED popupOnly

\* handleFileSelect up to await extractEXIFData(file)
handleFileSelect(file) ==
  /\ popup.section = "upload"
  /\ Len(popup.tasks) < MaxInFlight
  /\ popup' = IF ~file.image THEN showError(popup)
              ELSE [popup EXCEPT !.selectedFile = file.name,
                                 !.tasks = Append(@, Task("handleFileSelect", file.name, "extractEXIFData"))]
  /\ UNCHANGED popupOnly

\* extractEXIFData settles: on to attemptAIEstimation, or the catch block
FileSelectAfterEXIF(i) ==
  /\ i \in 1..Len(popup.tasks)
  /\ popup.tasks[i].pc = "extractEXIFData"
  /\ LET extracted == extractEXIFData(FileNamed(popup.tasks[i].file), popup.dateInput)
     IN popup' = IF extracted.rejected THEN showError(Finish(popup, i))
                 ELSE [popup EXCEPT !.dateInput = extracted.dateInput,
                                    !.tasks[i].pc = "attemptAIEstimation"]
  /\ UNCHANGED popupOnly

\* amountInput.value = aiResult.estimatedVolume; showAIEstimationBadge
FillEstimateIfBlank(p, aiResult) ==
  IF p.amountInput # <<>> THEN p
  ELSE [p EXCEPT !.amountInput = AmountValue(aiResult.estimatedVolume),
                 !.amountFrom = "ai",
                 !.badge = aiResult.confidence]

FillEstimate(p, aiResult) ==
  [p EXCEPT !.amountInput = AmountValue(aiResult.estimatedVolume),
            !.amountFrom = "ai",
            !.badge = aiResult.confidence]

\* amountInput.value = ''; showManualInputMessage
ManualInput(p) == [p EXCEPT !.amountInput = <<>>, !.amountFrom = "none", !.badge = "none"]

\* handleFileSelect from the result of attemptAIEstimation to its end
FileSelectAfterEstimation(i, aiResult) ==
  /\ i \in 1..Len(popup.tasks)
  /\ popup.tasks[i] = Task("handleFileSelect", popup.tasks[i].file, "attemptAIEstimation")
  /\ popup' = showSection(Finish(IF aiResult.success THEN FillEstimate(popup, aiResult)
                                 ELSE ManualInput(popup), i),
                          "edit")
  /\ UNCHANGED popupOnly

\* handleAIReEstimate up to await attemptAIEstimation(selectedFile)
handleAIReEstimate ==
  /\ popup.section = "edit"
  /\ Len(popup.tasks) < MaxInFlight
  /\ popup' = IF popup.selectedFile = "null" THEN showError(popup)
              ELSE [popup EXCEPT !.tasks = Append(@, Task("handleAIReEstimate", popup.selectedFile,
                                                          "attemptAIEstimation"))]
  /\ UNCHANGED popupOnly

\* handleAIReEstimate from the result of attemptAIEstimation to its end
ReEstimateAfterEstimation(i, aiResult) ==
  /\ i \in 1..Len(popup.tasks)
  /\ popup.tasks[i] = Task("handleAIReEstimate", popup.tasks[i].file, "attemptAIEstimation")
  /\ popup' = IF aiResult.success THEN Finish(FillEstimate(popup, aiResult), i)
              ELSE showError(Finish(popup, i))
  /\ UNCHANGED popupOnly

\* the user types an amount into the edit form
TypeAmount(value) ==
  /\ popup.section = "edit"
  /\ popup.amountInput # value
  /\ popup' = [popup EXCEPT !.amountInput = value, !.amountFrom = "user"]
  /\ UNCHANGED popupOnly

\* cancelEditBtn
resetToMain ==
  /\ popup.section = "edit"
  /\ popup' = showSection(resetForm(popup), "main")
  /\ UNCHANGED popupOnly

\* saves of one run of the popup
MaxPopupSaves == 1

\* saveBtn: handleSave on the fields of the form, then the success section and
\* resetForm, or showError
SaveClick(memoInput) ==
  /\ popup.section = "edit"
  /\ nextSeq < MaxPopupSaves
  /\ handleSave(popup.dateInput, popup.amountInput, memoInput)
  /\ popup' = IF last'.status = "ok" THEN resetForm(showSection(popup, "success"))
              ELSE showError(popup)
  /\ UNCHANGED <<mirror, estimation, calls>>

NextPopup ==
  \/ NewRecordClick
  \/ BackToMainClick
  \/ \E file \in Files : handleFileSelect(file)
  \/ \E i \in 1..MaxInFlight : FileSelectAfterEXIF(i)
  \/ \E i \in 1..MaxInFlight, aiResult \in AttemptResults : FileSelectAfterEstimation(i, aiResult)
  \/ handleAIReEstimate
  \/ \E i \in 1..MaxInFlight, aiResult \in AttemptResults : ReEstimateAfterEstimation(i, aiResult)
  \/ \E value \in TypedAmounts : TypeAmount(value)
  \/ resetToMain
  \/ \E memoInput \in MemoInputs : SaveClick(memoInput)

SpecPopup == Init /\ [][NextPopup]_vars

\* ------------------------------------------------------------------ claims
\* the persisted array
Records == StoredOrEmpty(disk)

\* an integer number of millilitres in [0, MaxAmount]
ValidAmount(a) == a % 2 = 0 /\ 0 <= a /\ a <= 2 * MaxAmount

Elements(s) == {s[i] : i \in 1..Len(s)}

\* C1: in every reachable state listAll returns every stored record exactly
\* once, newest createdAt first, and records with equal createdAt in the order
\* in which they were inserted into the store.
C1_ListAllNewestFirstTiesByInsertion ==
  LET listed == getAllRecords(disk)
  IN /\ Len(listed) = Len(Records)
     /\ Elements(listed) = Elements(Records)
     /\ \A i, j \in 1..Len(listed) :
          i < j => \/ listed[i].createdAt > listed[j].createdAt
                   \/ /\ listed[i].createdAt = listed[j].createdAt
                      /\ listed[i].seq < listed[j].seq

\* C2: a create whose amount is no integer in [0,50] fails and leaves the
\* store exactly as it was, through saveRecord and through handleSave.
C2_CreateRejectsInvalidAmount ==
  [][/\ \A recordData \in RecordInputs :
          (~ValidAmount(recordData.amount) /\ saveRecord(recordData))
            => (last'.status # "ok" /\ disk' = disk)
     /\ \A dateInput \in DateInputs, amountInput \in AmountInputs, memoInput \in MemoInputs :
          (/\ dateInput # ""
           /\ IsNaNText(amountInput) \/ ~ValidAmount(parseFloat(amountInput))
           /\ handleSave(dateInput, amountInput, memoInput))
            => (last'.status # "ok" /\ disk' = disk)]_vars

\* C3: in every reachable state every stored record has an integer amount
\* with 0 <= amount <= 50.
C3_StoredAmountsValid ==
  \A i \in 1..Len(Records) : ValidAmount(Records[i].amount)

\* C4: in every reachable state no two stored records share an id.
C4_IdsUnique ==
  \A i, j \in 1..Len(Records) : i # j => Records[i].id # Records[j].id

\* C5: saveRecord of a valid (datetime, amount, memo) on an empty store makes
\* listAll return exactly one record, which carries the datetime, amount, memo
\* and source supplied and a populated id, createdAt and updatedAt.
C5_CreateThenListRoundTrip ==
  [][\A recordData \in RecordInputs :
       (/\ ValidAmount(recordData.amount)
        /\ getAllRecords(disk) = <<>>
        /\ saveRecord(recordData)
        /\ last'.status = "ok")
         => LET listed == getAllRecords(disk')
            IN /\ Len(listed) = 1
               /\ listed[1].datetime = recordData.datetime
               /\ listed[1].amount = recordData.amount
               /\ listed[1].memo =
                    (IF recordData.memo = "undefined" THEN "" ELSE recordData.memo)
               /\ recordData.source \in {"manual", "ai"}
                    => listed[1].source = recordData.source
               /\ listed[1].id \in Ids
               /\ listed[1].createdAt = now
               /\ listed[1].updatedAt \in now..now'
     ]_vars

\* C5 witness: the first record ever inserted, by a successful saveRecord with
\* source ai, is the only record of the store.
C5_Witness ==
  /\ last.op = "saveRecord" /\ last.status = "ok"
  /\ nextSeq = 1 /\ Len(Records) = 1
  /\ Records[1].source = "ai" /\ Records[1].memo = "note"
  /\ ValidAmount(Records[1].amount)

IdsOf(records) == {records[i].id : i \in 1..Len(records)}

\* C6: deleteRecord of an id that no stored record has fails, and the store
\* contents are unchanged.
C6_DeleteAbsentFails ==
  [][\A id \in Ids :
       (id \notin IdsOf(Records) /\ deleteRecord(id))
         => (last'.status # "ok" /\ getAllRecords(disk') = getAllRecords(disk))
    ]_vars

\* C7: a successful deleteRecord of an id that is present leaves exactly one
\* record fewer, none with that id, and every other record as it was.
C7_DeletePresentRemovesExactlyOne ==
  [][\A id \in Ids :
       (id \in IdsOf(Records) /\ deleteRecord(id) /\ last'.status = "ok")
         => /\ Len(StoredOrEmpty(disk')) = Len(Records) - 1
            /\ id \notin IdsOf(StoredOrEmpty(disk'))
            /\ \A r \in Elements(Records) :
                 r.id # id => r \in Elements(StoredOrEmpty(disk'))
    ]_vars

\* the entries of a document whose id no record of the store has, in order
FreshEntries(incoming, existing) ==
  SelectSeq(incoming, LAMBDA e : \A i \in 1..Len(existing) : existing[i].id # e.id)

\* C8: a successful importFromJSON returns the number of incoming records
\* whose id was not in the store, appends exactly those with their own fields,
\* and leaves every record that was in the store as it was.
C8_ImportAddsExactlyTheNewIds ==
  [][(/\ last'.op = "importFromJSON" /\ last'.status = "ok"
      /\ importFromJSON(last'.doc))
       => LET existing == getAllRecords(disk)
              fresh == FreshEntries(ImportedRecords(last'.doc), existing)
              after == StoredOrEmpty(disk')
          IN /\ last'.count = Len(fresh)
             /\ Len(after) = Len(existing) + Len(fresh)
             /\ SubSeq(after, 1, Len(existing)) = existing
             /\ \A k \in 1..Len(fresh) :
                  JSONRecord(after[Len(existing) + k]) = fresh[k]
    ]_vars

\* C8 witness: an import of two entries, one with a new id and one whose id a
\* stored record had, has returned 1.
C8_Witness ==
  /\ last.op = "importFromJSON" /\ last.status = "ok"
  /\ Len(last.doc.records) = 2 /\ last.count = 1
  /\ last.doc.records[1].id # last.doc.records[2].id
  /\ Len(Records) = 2

\* C9: importing the document exportToJSON has just returned for this store
\* returns 0 and leaves the result of listAll unchanged.
C9_ExportThenImportAddsNothing ==
  [][(/\ snapshot # NoSnapshot
      /\ snapshot.records = JSONRecords(getAllRecords(disk))
      /\ importFromJSON(snapshot)
      /\ last'.status = "ok")
       => (last'.count = 0 /\ getAllRecords(disk') = getAllRecords(disk))
    ]_vars

\* C9 witness: the snapshot of a store of two records has been imported into it.
C9_Witness ==
  /\ last.op = "importFromJSON" /\ last.status = "ok" /\ last.ofSnapshot
  /\ last.doc = snapshot
  /\ Len(Records) = 2

\* an import document with no records field, or with an entry that is no Record
Malformed(doc) ==
  \/ doc.kind = "invalid"
  \/ ~doc.hasRecords
  \/ \E i \in 1..Len(doc.records) : ~ValidAmount(doc.records[i].amount)

\* C10: importFromJSON of a malformed document fails and merges nothing: the
\* store is unchanged.
C10_MalformedImportFailsWhole ==
  [][\A doc \in ImportInputs :
       (Malformed(doc) /\ importFromJSON(doc))
         => (last'.status # "ok" /\ getAllRecords(disk') = getAllRecords(disk))
    ]_vars

\* C11: importing a document a second time right after a successful import of
\* it returns 0 and leaves the store contents unchanged.
C11_ImportTwiceAddsNothing ==
  [][(/\ last.op = "importFromJSON" /\ last.status = "ok"
      /\ importFromJSON(last.doc)
      /\ last'.status = "ok")
       => /\ last'.count = 0
          /\ getAllRecords(disk') = getAllRecords(disk)
          /\ Elements(StoredOrEmpty(disk')) = Elements(Records)
          /\ Len(StoredOrEmpty(disk')) = Len(Records)
    ]_vars

\* C11 witness: a document of two entries has been imported right after a
\* successful import of it, into the store that holds both entries.
C11_Witness ==
  /\ last.op = "importFromJSON" /\ last.status = "ok" /\ last.again
  /\ ~last.ofSnapshot
  /\ Len(last.doc.records) = 2
  /\ last.doc.records[1].id # last.doc.records[2].id
  /\ Len(Records) = 2
  /\ \A i \in 1..2 : Records[i].memo = "imported"

\* the records of a store as a set of JSON records: ids with their field values
RecordSet(d) == {JSONRecord(r) : r \in Elements(StoredOrEmpty(d))}

\* C12: when a store has imported D1 then D2 and a copy of it D2 then D1, the
\* two hold the same set of records: the same ids with the same field values.
C12_ImportOrderIrrelevant ==
  (mirror.forked /\ mirror.here = <<>> /\ mirror.there = <<>>)
    => RecordSet(disk) = RecordSet(mirror.disk)

\* the fields of a stored record that the program wrote
Fields == {"id", "datetime", "amount", "memo", "source", "imageData", "createdAt", "updatedAt"}

\* C13: a successful updateRecord leaves the id and the createdAt of the
\* record it updates as they were, whatever the updates carry.
C13_UpdateKeepsIdAndCreatedAt ==
  [][\A id \in Ids, updates \in UpdateInputs :
       (updateRecord(id, updates) /\ last'.status = "ok")
         => LET records == getAllRecords(disk)
                index == findIndex(records, id)
                after == StoredOrEmpty(disk')
            IN /\ after[index].id = records[index].id
               /\ after[index].createdAt = records[index].createdAt
    ]_vars

\* C14: a successful updateRecord on a present id gives the first record of
\* that id the supplied amount, memo, datetime and source, sets its updatedAt
\* to the current time, keeps every field that was not supplied, and leaves
\* every other record as it was.
C14_UpdateChangesOnlySuppliedFields ==
  [][\A id \in Ids, updates \in UpdateInputs :
       (updateRecord(id, updates) /\ last'.status = "ok")
         => LET records == getAllRecords(disk)
                index == findIndex(records, id)
                after == StoredOrEmpty(disk')
            IN /\ Len(after) = Len(records)
               /\ \A j \in 1..Len(records) : j # index => after[j] = records[j]
               /\ after[index].updatedAt = now
               /\ \A f \in Fields \ {"updatedAt"} :
                    IF f \in DOMAIN updates
                    THEN f \notin {"id", "createdAt"} => after[index][f] = updates[f]
                    ELSE after[index][f] = records[index][f]
               /\ after[index].seq = records[index].seq
    ]_vars

\* C14 witness: of two stored records one has been given a new amount and
\* memo at a time later than its creation, the other has not.
C14_Witness ==
  /\ last.op = "updateRecord" /\ last.status = "ok"
  /\ Len(Records) = 2
  /\ \E i, j \in 1..2 :
       /\ Records[i].memo = "edited" /\ Records[i].amount = 102
       /\ Records[i].updatedAt = now /\ Records[i].createdAt < now
       /\ Records[j].memo # "edited"

\* C15: updateRecord of an id that no stored record has fails, with 'Record
\* not found' once the store has been read, and the store is unchanged.
C15_UpdateAbsentFails ==
  [][\A id \in Ids, updates \in UpdateInputs :
       (id \notin IdsOf(Records) /\ updateRecord(id, updates))
         => /\ last'.status \in {"NotFound", "PersistenceError"}
            /\ disk' = disk
    ]_vars

\* C15 witness: updateRecord has thrown 'Record not found' on a store that
\* holds a record of another id.
C15_Witness ==
  /\ last.op = "updateRecord" /\ last.status = "NotFound"
  /\ Len(Records) = 1

\* C16: clearAllRecords never fails for want of records; when it resolves,
\* listAll is empty afterwards, on a store with records and on an empty one.
C16_ClearAllEmptiesAndIsIdempotent ==
  [][clearAllRecords
       => /\ last'.status \in {"ok", "PersistenceError"}
          /\ last'.status = "ok" => getAllRecords(disk') = <<>>
    ]_vars

\* C16 witness: clearAllRecords has resolved right after a clearAllRecords
\* that resolved, so on a store that was already empty.
C16_Witness ==
  /\ last.op = "clearAllRecords" /\ last.status = "ok" /\ last.again
  /\ getAllRecords(disk) = <<>>
  /\ nextSeq > 0

Mutating ==
  {"saveRecord", "handleSave", "updateRecord", "deleteRecord", "clearAllRecords",
   "importFromJSON"}

\* C18: when the read or the write of a mutating operation fails, the
\* operation reports the error and the persisted store is exactly as before.
C18_FailedWriteLeavesStore ==
  [][(last'.op \in Mutating /\ last'.status = "PersistenceError")
       => disk' = disk
    ]_vars

\* C18 witness: an updateRecord has failed on the substrate with two records
\* in the store.
C18_Witness ==
  /\ last.op = "updateRecord" /\ last.status = "PersistenceError"
  /\ Len(Records) = 2

\* C19: a successful estimation that returns the integer v has 0 <= v <= 50
\* and confidence high for 10..40, low for 0..4 and 46..50, medium for 5..9
\* and 41..45.
C19_ConfidenceByRange ==
  (/\ estimation.pc = "done"
   /\ estimation.result.success
   /\ estimation.result.estimatedVolume # <<>>)
    => LET v == estimation.result.estimatedVolume[1]
       IN /\ v \in 0..50
          /\ v \in 10..40 => estimation.result.confidence = "high"
          /\ v \in (0..4) \cup (46..50) => estimation.result.confidence = "low"
          /\ v \in (5..9) \cup (41..45) => estimation.result.confidence = "medium"

\* C19 witness: an estimation has returned 40 ml, the upper end of high.
C19_Witness ==
  /\ estimation.pc = "done" /\ estimation.result.success
  /\ estimation.result.estimatedVolume = <<40>>
  /\ estimation.result.confidence = "high"

\* the statuses other than unavailable
Working == {"downloadable", "downloading", "available"}

\* C20: a finished attemptAIEstimation has called LanguageModel.create if and
\* only if its availability query, the one attemptAIEstimation makes, returned
\* a status other than unavailable; with no capability, the status
\* unavailable or a query that throws, it has returned success:false and has
\* called neither LanguageModel.create nor session.prompt.
C20_SessionIffAvailabilityUsable ==
  estimation.pc = "done"
    => /\ estimation.created
            <=> (estimation.queries # <<>> /\ estimation.queries[1] \in Working)
       /\ (\E i \in DOMAIN estimation.queries : estimation.queries[i] \notin Working)
            => /\ ~estimation.result.success
               /\ ~estimation.created
               /\ ~estimation.prompted

\* C20 as amended: LanguageModel.create has been called only after availability
\* queries that all returned a status other than unavailable, and a finished
\* attemptAIEstimation has called it if and only if it made such queries and
\* each of them, attemptAIEstimation's and estimateFlowFromImage's, returned a
\* status other than unavailable; otherwise it has returned success:false and
\* has called neither LanguageModel.create nor session.prompt.
C20_SessionIffEveryQueryUsable ==
  LET everyQueryUsable ==
        /\ estimation.queries # <<>>
        /\ \A i \in DOMAIN estimation.queries : estimation.queries[i] \in Working
  IN /\ estimation.created => (everyQueryUsable /\ Len(estimation.queries) = 2)
     /\ estimation.prompted => estimation.created
     /\ estimation.pc = "done"
          => /\ estimation.created <=> everyQueryUsable
             /\ ~everyQueryUsable
                  => /\ ~estimation.result.success
                     /\ ~estimation.prompted

\* C20 witness: after the statuses downloadable and downloading a session was
\* created and prompted, and the estimation succeeded.
C20_Witness ==
  /\ estimation.pc = "done"
  /\ estimation.queries = <<"downloadable", "downloading">>
  /\ estimation.created /\ estimation.prompted
  /\ estimation.result.success

\* C21: every result attemptAIEstimation returns has an estimatedVolume and a
\* confidence exactly when success is true, and a reason exactly when success
\* is false.
C21_ResultWellFormed ==
  estimation.pc = "done"
    => LET result == estimation.result
       IN /\ result.success <=> result.estimatedVolume # <<>>
          /\ result.success <=> result.confidence \in {"low", "medium", "high"}
          /\ ~result.success <=> result.reason # "undefined"

\* a completion that starts, after white space, with an integer numeral
StartsWithInteger(text) == trimStart(text) # <<>> /\ Head(trimStart(text)).numeral

\* C22: an error raised by LanguageModel.create, session.append or
\* session.prompt, a completion that does not parse as an integer and a
\* parsed integer outside [0,50] all end the call with success:false, and a
\* result with success:true carries an integer estimatedVolume in [0,50].
C22_FailuresAreTagged ==
  [][/\ \A outcome \in CallOutcomes :
          (outcome.thrown /\ (LanguageModelCreate(outcome) \/ SessionAppend(outcome)))
            => (estimation'.pc = "done" /\ ~estimation'.result.success)
     /\ \A message \in Messages :
          SessionPromptThrows(message)
            => (estimation'.pc = "done" /\ ~estimation'.result.success)
     /\ \A text \in Responses :
          (/\ SessionPrompt(text)
           /\ ~(StartsWithInteger(text) /\ Head(trimStart(text)).n \in 0..50))
            => (estimation'.pc = "done" /\ ~estimation'.result.success)
     /\ (estimation'.pc = "done" /\ estimation'.result.success)
          => /\ estimation'.result.estimatedVolume # <<>>
             /\ estimation'.result.estimatedVolume[1] \in 0..50
    ]_vars

\* the file carries a capture time that decodes to a date
HasCaptureTime(file) ==
  /\ file.decodes
  /\ file.tag.given
  /\ ~parseEXIFDate(file.tag).thrown
  /\ parseEXIFDate(file.tag).date.valid

\* C23: extractEXIFData never fails for handleFileSelect: when the capture
\* time tag of the file is absent or malformed, or reading it raises an error,
\* the date field receives the file's last-modified time, no error is shown
\* and the handler goes on to the estimation.
C23_ExifFallsBackToFileDate ==
  [][\A i \in 1..MaxInFlight :
       (FileSelectAfterEXIF(i) /\ ~HasCaptureTime(FileNamed(popup.tasks[i].file)))
         => /\ popup'.dateInput = formatDateForInput(LastModified)
            /\ popup'.section = popup.section
            /\ popup'.tasks = [popup.tasks EXCEPT ![i].pc = "attemptAIEstimation"]
    ]_vars

\* C24: a failed estimate never halts the workflow: when handleFileSelect or
\* handleAIReEstimate resumes with a result whose success is false, the edit
\* section is the one shown afterwards, not the error section.
C24_FailedEstimateShowsEdit ==
  [][\A i \in 1..MaxInFlight, aiResult \in AttemptResults :
       (/\ ~aiResult.success
        /\ FileSelectAfterEstimation(i, aiResult) \/ ReEstimateAfterEstimation(i, aiResult))
         => popup'.section = "edit"
    ]_vars

\* C25: the source of a saved record tells where its amount came from: "ai"
\* when a successful estimation filled the amount in and the user did not
\* edit it, "manual" when the user typed it.
C25_SourceIsProvenance ==
  [][\A memoInput \in MemoInputs :
       (SaveClick(memoInput) /\ last'.status = "ok")
         => LET saved == disk'.records[Len(disk'.records)]
            IN /\ popup.amountFrom = "ai" => saved.source = "ai"
               /\ popup.amountFrom = "user" => saved.source = "manual"
    ]_vars

\* handler i resumes from attemptAIEstimation with aiResult
Resumes(i, aiResult) ==
  FileSelectAfterEstimation(i, aiResult) \/ ReEstimateAfterEstimation(i, aiResult)

\* C27: nothing arbitrates between estimation requests in flight: whenever a
\* request resumes, whatever resumed before it and whatever is still in
\* flight, the amount and the badge of the form become those of its result (a
\* failed estimate of handleFileSelect blanks both; a failed re-estimation
\* hides the form), so that after two overlapping requests the form shows
\* the one that resumed last, in either order.
C27_LastResumedWins ==
  [][\A i \in 1..MaxInFlight, aiResult \in AttemptResults :
       (Resumes(i, aiResult) /\ (aiResult.success \/ popup'.section = "edit"))
         => IF aiResult.success
            THEN /\ popup'.amountInput = AmountValue(aiResult.estimatedVolume)
                 /\ popup'.badge = aiResult.confidence
            ELSE /\ popup'.amountInput = <<>>
                 /\ popup'.badge = "none"
    ]_vars

\* two overlapping requests have both resumed, the one started last first, and
\* the edit form shows the 3 ml estimate over the 25 ml one
C27_Witness ==
  /\ popup.resumed = "newerThenOlder"
  /\ popup.section = "edit"
  /\ popup.selectedFile # "null"
  /\ popup.tasks = <<>>
  /\ popup.amountFrom = "ai"
  /\ popup.amountInput = AmountValue(<<3>>)
  /\ popup.badge = Confidence(3)

\* C28: the result of an estimation is written into the form only while the
\* image it was computed from is still the selected one: a request that
\* resumes after its draft was cancelled, saved or replaced by another image
\* leaves the amount field as it is.
C28_StaleResultNotApplied ==
  [][\A i \in 1..MaxInFlight, aiResult \in AttemptResults :
       (Resumes(i, aiResult) /\ popup.tasks[i].file # popup.selectedFile)
         => popup'.amountInput = popup.amountInput
    ]_vars

\* C26: saveRecord only appends: the sequence stored after a successful
\* saveRecord is the sequence stored before it, in the same order, followed
\* by the new record.
C26_SaveOnlyAppends ==
  [][\A recordData \in RecordInputs :
       (SaveRecordStep("saveRecord", recordData) /\ last'.status = "ok")
         => /\ Len(disk'.records) = Len(StoredOrEmpty(disk)) + 1
            /\ SubSeq(disk'.records, 1, Len(StoredOrEmpty(disk))) = StoredOrEmpty(disk)
    ]_vars

\* C29: no acknowledged write is lost: when the write of a saveRecord or a
\* deleteRecord succeeds while another store call is in flight or has written
\* since the call read the store, the store afterwards holds what it held
\* before that write with the call's own change applied, so that the effects
\* of both calls are in the final store.
C29_NoAcknowledgedWriteLost ==
  [][\A i \in 1..MaxCalls :
       (CallSets(i) /\ last'.status = "ok")
         => IF calls[i].op = "saveRecord"
            THEN Elements(disk'.records)
                   = Elements(StoredOrEmpty(disk)) \cup {calls[i].records[Len(calls[i].records)]}
            ELSE Elements(disk'.records)
                   = {r \in Elements(StoredOrEmpty(disk)) : r.id # calls[i].id}
    ]_vars
====
